---------------------------- MODULE Spec2Model ----------------------------
(***************************************************************************)
(* Data-freshness and credential-lifecycle subsystem of the flight map:    *)
(* the OAuth2 token cache (lib/opensky-oauth.js), the snapshot cache       *)
(* (lib/flight-cache.js), the /api/flights handler and the scheduled       *)
(* refresher (cron route).                                                 *)
(*                                                                         *)
(* Each handler execution is a process slot.  A handler runs atomically    *)
(* from one network await to the next (the Node event loop runs a          *)
(* continuation to its next I/O await); the steps of different handlers    *)
(* and the passage of time interleave freely between those points.         *)
(***************************************************************************)
EXTENDS Integers, Sequences, FiniteSets, TLC

(***************************** bounds **************************************)
\* ticks of the clock in a behaviour checked for termination
MaxFairTicks == 2
\* fetchers a RequestCache starts in one behaviour
MaxFetchers == 3
\* a ttl shorter than the default one
ShortTtl == 5000
\* interval firings of the polling hook in one behaviour
MaxPolls == 3
\* requests the polling hook issues in one behaviour
MaxIssued == 4
\* total number of handler executions started in one behaviour
MaxRequests == 2
\* number of clock ticks in one behaviour
MaxTicks == 4
\* Date.now() at process start (any positive epoch value)
StartTime == 1000000

(***************************** values **************************************)
\* JS null / undefined for numbers and tokens
NULL == -1
\* JS null for strings (searchParams.get, headers.get, process.env)
Absent == "<absent>"

Procs == {1, 2}

\* JS truthiness of a nullable number / of a nullable string
TruthyNum(x) == x # NULL /\ x # 0
TruthyStr(s) == s # Absent /\ s # ""

\* variant: truncation instead of rounding
MathFloor(n, d) == n \div d

\* Math.round for a non-negative quotient n / d
MathRound(n, d) == (2 * n + d) \div (2 * d)

(***************************** flight-cache.js *****************************)
CACHE_DURATION_MS == 10000
MAX_CACHE_AGE_MS == 60000

VARIABLES
  cachedFlightData,   \* flight-cache.js: the cached snapshot, or NoSnapshot
  lastUpdateTime,     \* flight-cache.js: instant of the last set, or NULL
  cachedToken,        \* opensky-oauth.js: the cached bearer token, or NULL
  tokenExpiry,        \* opensky-oauth.js: its expiry instant, or NULL
  clock,              \* number of ticks of the clock so far
  env,                \* process.env: OPENSKY_CLIENT_ID/SECRET, CRON_SECRET
  req,                \* per slot: the handler execution's locals
  arrived,            \* the request that arrived in the latest step
                      \* (NoArrival when that step started no handler)
  grantReply,         \* the grant response consumed in the latest step
                      \* (NoGrantReply when that step consumed none)
  last,               \* the handler execution that returned in the latest
                      \* step (IdleReq when that step returned nothing)
  started,            \* handler executions started so far
  hook,               \* the browser's useFlightData hook: its refs, its
                      \* state, its timer and its request in flight
  requestCache        \* the exported RequestCache object: its two maps and
                      \* the fetchers it has started

vars == <<cachedFlightData, lastUpdateTime, cachedToken, tokenExpiry, clock,
          env, req, arrived, grantReply, last, started, hook, requestCache>>

\* the variables of the server
serverVars == <<cachedFlightData, lastUpdateTime, cachedToken, tokenExpiry,
                clock, env, req, arrived, grantReply, last, started>>

\* the length of the k-th tick, in milliseconds: the clock is read 4.6 s and
\* 10 s after the start, 50 s later, and every 10 s from then on
TickLength(k) ==
  CASE k = 1 -> 4600
    [] k = 2 -> 5400
    [] k = 3 -> 50000
    [] OTHER -> 10000

RECURSIVE Elapsed(_)
Elapsed(k) == IF k = 0 THEN 0 ELSE Elapsed(k - 1) + TickLength(k)

\* Date.now()
now == StartTime + Elapsed(clock)

\* cachedFlightData = null
NoSnapshot ==
  [flights |-> <<>>, time |-> NULL, count |-> NULL, source |-> "none",
   cachedAt |-> NULL]

\* variant: the previous snapshot's time is kept
SnapshotKeepingTime(data, t) ==
  [flights |-> data.flights, time |-> cachedFlightData.time,
   count |-> data.count, source |-> data.source, cachedAt |-> t]

\* variant: the new flights are appended to the previous ones
SnapshotMerged(data, t) ==
  [flights |-> cachedFlightData.flights \o data.flights, time |-> data.time,
   count |-> data.count, source |-> data.source, cachedAt |-> t]

\* the object assigned by setCachedFlights(data)
SnapshotOf(data, t) ==
  [flights |-> data.flights, time |-> data.time, count |-> data.count,
   source |-> data.source, cachedAt |-> t]

\* variant: a snapshot already cached is kept
setCachedFlightsOnce(data) ==
  IF cachedFlightData = NoSnapshot
  THEN /\ cachedFlightData' = SnapshotOf(data, now)
       /\ lastUpdateTime' = now
  ELSE UNCHANGED <<cachedFlightData, lastUpdateTime>>

setCachedFlights(data) ==
  /\ cachedFlightData' = SnapshotOf(data, now)
  /\ lastUpdateTime' = now

\* getCachedFlights(): null (present = FALSE) or the snapshot with its age
getCachedFlights ==
  IF cachedFlightData = NoSnapshot
  THEN [present |-> FALSE, data |-> NoSnapshot, cacheAge |-> NULL,
        cacheAgeSeconds |-> NULL, isFresh |-> FALSE, isStale |-> FALSE]
  ELSE LET age == now - lastUpdateTime IN
       [present |-> TRUE, data |-> cachedFlightData, cacheAge |-> age,
        cacheAgeSeconds |-> MathRound(age, 1000),
        isFresh |-> age < CACHE_DURATION_MS,
        isStale |-> age > MAX_CACHE_AGE_MS]

hasFreshCache ==
  IF cachedFlightData = NoSnapshot \/ ~TruthyNum(lastUpdateTime)
  THEN FALSE
  ELSE now - lastUpdateTime < MAX_CACHE_AGE_MS

(***************************** opensky-oauth.js ****************************)
TOKEN_BUFFER_MS == 5 * 60 * 1000
DEFAULT_EXPIRES_IN == 3600

\* the module's two variables, as one value a handler step threads through
TokenCache == [cachedToken |-> cachedToken, tokenExpiry |-> tokenExpiry]

SetTokenCache(tc) ==
  /\ cachedToken' = tc.cachedToken
  /\ tokenExpiry' = tc.tokenExpiry

\* variant: a token counts as usable up to its expiry, without the buffer
TokenUsableToExpiry(tc) ==
  /\ TruthyNum(tc.cachedToken)
  /\ TruthyNum(tc.tokenExpiry)
  /\ now < tc.tokenExpiry

\* line 16: the cached token is still valid (with the 5 minute buffer)
TokenUsable(tc) ==
  /\ TruthyNum(tc.cachedToken)
  /\ TruthyNum(tc.tokenExpiry)
  /\ now < tc.tokenExpiry - TOKEN_BUFFER_MS

\* variant: only the client id is looked at
HasClientId == TruthyStr(env.clientId)

\* line 24: both credentials are configured
HasCredentials == TruthyStr(env.clientId) /\ TruthyStr(env.clientSecret)

\* variant: invalidation that leaves the cache as it is
keepTokenCache(tc) == tc

\* clearTokenCache(): lines 134-138
clearTokenCache(tc) == [cachedToken |-> NULL, tokenExpiry |-> NULL]

\* variant: exchanges are serialized; a caller that finds an exchange in
\* flight starts none and goes on without a token
getAccessTokenSerialized(tc) ==
  IF TokenUsable(tc) THEN [await |-> FALSE, token |-> tc.cachedToken]
  ELSE IF ~HasCredentials THEN [await |-> FALSE, token |-> NULL]
  ELSE IF \E o \in Procs : req[o].pc \in {"exch1", "exch2"}
  THEN [await |-> FALSE, token |-> NULL]
  ELSE [await |-> TRUE, token |-> NULL]

\* getAccessToken() up to its first network await (lines 14-27):
\* the cached token, null without credentials, or a grant exchange to await
getAccessTokenSync(tc) ==
  IF TokenUsable(tc) THEN [await |-> FALSE, token |-> tc.cachedToken]
  ELSE IF ~HasCredentials THEN [await |-> FALSE, token |-> NULL]
  ELSE [await |-> TRUE, token |-> NULL]

\* what the grant endpoint can answer (the 15 s abort is a network failure)
GrantOutcomes ==
  [kind : {"neterr", "non2xx", "badjson", "notoken"}, expires_in : {NULL}]
    \cup [kind : {"ok"}, expires_in : {NULL, 0, 310}]

\* lines 87-92: a successful exchange caches the token and its expiry
ExchangeSuccess(tok, expires_in) ==
  [cachedToken |-> tok,
   tokenExpiry |-> now + (IF TruthyNum(expires_in) THEN expires_in
                          ELSE DEFAULT_EXPIRES_IN) * 1000]

\* variant: a failed exchange drops the token and keeps the expiry
ExchangeFailureKeepsExpiry ==
  [cachedToken |-> NULL, tokenExpiry |-> tokenExpiry]

\* lines 98-104: any failure of the exchange clears the cache
ExchangeFailure == [cachedToken |-> NULL, tokenExpiry |-> NULL]

\* the access_token a grant answers with: the endpoint mints a new token for
\* every grant, here named by the handler execution and its attempt
MintedToken(id, retry) == IF retry THEN 2 * id ELSE 2 * id - 1

\* getAccessToken() after the grant response (lines 64-105): the new cache
\* state and the value returned.  tok is the access_token of the response.
getAccessTokenResume(tok, out) ==
  IF out.kind = "ok"
  THEN [cache |-> ExchangeSuccess(tok, out.expires_in), token |-> tok]
  ELSE [cache |-> ExchangeFailure, token |-> NULL]

\* variant: the base headers whatever the token
baseHeaders(accessToken) ==
  [Accept |-> "application/json", UserAgent |-> "Avara-Flight-Tracker/2.0",
   Authorization |-> NULL]

\* getAuthHeaders(): the Authorization value of the header set (NULL: none);
\* Accept and User-Agent are always present
getAuthHeaders(accessToken) ==
  [Accept |-> "application/json", UserAgent |-> "Avara-Flight-Tracker/2.0",
   Authorization |-> IF TruthyNum(accessToken) THEN accessToken ELSE NULL]

(***************************** upstream ************************************)
Row(id, lon, lat, alt) ==
  [icao24 |-> id, longitude |-> lon, latitude |-> lat, baro_altitude |-> alt]

NoBody == [parse |-> "none", time |-> NULL, hasStates |-> FALSE, states |-> <<>>]

\* bodies a 200 answer can carry: rows of which one has nothing but its
\* coordinates and two lack a coordinate, no
\* states member, text that is not JSON, and JSON whose states member is not
\* an array of rows (states.map or state[0] throws a TypeError)
Bodies ==
  { [parse |-> "json", time |-> 1700, hasStates |-> TRUE,
     states |-> <<Row(Absent, 10, 50, NULL), Row("b2", NULL, 51, 8000),
                  Row("c3", 12, 52, 9000), Row("d4", 13, NULL, 7000)>>],
    [parse |-> "json", time |-> 1710, hasStates |-> FALSE, states |-> <<>>],
    [parse |-> "unparsable", time |-> NULL, hasStates |-> FALSE,
     states |-> <<>>],
    [parse |-> "json-badrows", time |-> 1720, hasStates |-> TRUE,
     states |-> <<>>] }

\* what the states endpoint can answer to one call
FetchOutcomes ==
  [kind : {"abort", "neterr"}, status : {NULL}, body : {NoBody}]
    \cup [kind : {"status"}, status : {401, 429, 500, 503}, body : {NoBody}]
    \cup [kind : {"status"}, status : {200}, body : Bodies]

ResponseOk(status) == status >= 200 /\ status <= 299

\* variant: only the longitude is looked at
NormalizeByLongitude(body) ==
  IF body.hasStates
  THEN SelectSeq(body.states, LAMBDA f : f.longitude # NULL)
  ELSE <<>>

\* flights/route.js 149-170: map the rows, drop those without coordinates
NormalizeFlights(body) ==
  IF body.hasStates
  THEN SelectSeq(body.states,
                 LAMBDA f : f.longitude # NULL /\ f.latitude # NULL)
  ELSE <<>>

(***************************** handler locals ******************************)
Params(a, b, c, d) == [lamin |-> a, lomin |-> b, lamax |-> c, lomax |-> d]
NoParams == Params(Absent, Absent, Absent, Absent)

\* query strings a client can send: none, all four, three of four,
\* all four keys with one empty value
FullBounds == Params("10", "20", "30", "40")
PartialBounds == Params("10", "", "30", Absent)
PollChoices ==
  { [params |-> NoParams, force |-> Absent],
    [params |-> NoParams, force |-> "true"],
    [params |-> NoParams, force |-> "1"],
    [params |-> FullBounds, force |-> Absent],
    [params |-> PartialBounds, force |-> Absent] }
AuthHeaderChoices == {Absent, "Bearer s3cret", "Bearer wrong"}

\* tracks/route.js 100-103: the members copied from the track body
TrackMeta(icao24, callsign, startTime, endTime) ==
  [icao24 |-> icao24, callsign |-> callsign, startTime |-> startTime,
   endTime |-> endTime]
NoTrackMeta == TrackMeta(Absent, Absent, NULL, NULL)

NoResp ==
  [status |-> NULL, kind |-> "none", cached |-> "absent", cacheAge |-> NULL,
   flights |-> <<>>, time |-> NULL, count |-> NULL, source |-> "none",
   details |-> "", track |-> NoTrackMeta, path |-> <<>>]

\* a request as it arrives: its query string or its Authorization header,
\* and the slot its handler runs in
Arrival(p, kind, q, force, authHeader) ==
  [slot |-> p, kind |-> kind, params |-> q, force |-> force,
   authHeader |-> authHeader, icao24 |-> Absent, time |-> Absent]
NoArrival == Arrival(0, "none", NoParams, Absent, Absent)

\* a grant response as the handler in slot p consumes it
GrantReply(p, out) ==
  [slot |-> p, kind |-> out.kind, expires_in |-> out.expires_in]
NoGrantReply == [slot |-> 0, kind |-> "none", expires_in |-> NULL]

\* the answer to a states call, as far as the handler looks at it
Reply(out) == [kind |-> out.kind, status |-> out.status, body |-> out.body]
NoReply == [kind |-> "none", status |-> NULL, body |-> NoBody]

\* the locals of a handler execution that are live across its awaits, counts
\* of what it has done so far, and (once it has returned) the snapshot that
\* its setCachedFlights call replaced
IdleReq ==
  [pc |-> "idle", id |-> 0, kind |-> "none",
   hasBoundingBox |-> FALSE, forceRefresh |-> FALSE, apiUrl |-> NoParams,
   hasAuth |-> FALSE,
   authorization |-> NULL, rejected |-> NULL, reply |-> NoReply,
   calls |-> 0, exchanges |-> 0, clears |-> 0, replaced |-> NoSnapshot,
   resp |-> NoResp]

\* variant: one truthy bound makes a bounding box
hasAnyBound(q) ==
  TruthyStr(q.lamin) \/ TruthyStr(q.lomin) \/ TruthyStr(q.lamax)
    \/ TruthyStr(q.lomax)

\* flights/route.js 33: all four bounds are truthy
hasBoundingBox(q) ==
  TruthyStr(q.lamin) /\ TruthyStr(q.lomin) /\ TruthyStr(q.lamax)
    /\ TruthyStr(q.lomax)

\* variant: the force flag is not looked at
forceRefreshIgnored(force) == FALSE

\* flights/route.js 30
forceRefresh(force) == force = "true"

\* variant: the bounding box is not looked at
ServeFromCacheAnyQuery(q, force) ==
  /\ ~forceRefresh(force)
  /\ getCachedFlights.present
  /\ hasFreshCache

\* flights/route.js 36-39: the poll is answered from the cache
ServeFromCache(q, force) ==
  /\ ~hasBoundingBox(q)
  /\ ~forceRefresh(force)
  /\ getCachedFlights.present
  /\ hasFreshCache

\* flights/route.js 42-58: the cache-hit response
CacheHitResponse ==
  LET cachedData == getCachedFlights IN
  [NoResp EXCEPT !.status = 200, !.kind = "flights", !.cached = "true",
                 !.cacheAge = cachedData.cacheAgeSeconds,
                 !.flights = cachedData.data.flights,
                 !.time = cachedData.data.time,
                 !.count = cachedData.data.count,
                 !.source = cachedData.data.source]

\* variant: a failure is reported as a success summary
SuccessSummaryResponse(kind, details) ==
  [NoResp EXCEPT !.status = 200, !.kind = "cron-ok", !.details = details]

\* variant: a failure is answered with the snapshot when one is cached
SnapshotOrErrorResponse(kind, details) ==
  IF cachedFlightData # NoSnapshot
  THEN CacheHitResponse
  ELSE [NoResp EXCEPT !.status = 500, !.kind = kind, !.details = details]

\* flights/route.js 201-206, cron 137-149: the boundary's 500 response
ErrorResponse(kind, details) ==
  [NoResp EXCEPT !.status = 500, !.kind = kind, !.details = details]

SourceTag(hasAuth) ==
  IF hasAuth THEN "opensky-authenticated" ELSE "opensky-anonymous"

\* variant: the anonymous wording whatever the request
AnonymousErrorMessage(status, hasAuth) ==
  CASE status = 429 -> "rate limit: anonymous 100/day"
    [] status = 401 -> "authentication failed"
    [] status = 503 -> "temporarily unavailable"
    [] OTHER -> "returned " \o ToString(status)

\* flights/route.js 131-140: the message for a non-2xx status
FlightsErrorMessage(status, hasAuth) ==
  CASE status = 429 -> IF hasAuth THEN "rate limit: authenticated quota"
                       ELSE "rate limit: anonymous 100/day"
    [] status = 401 -> "authentication failed"
    [] status = 503 -> "temporarily unavailable"
    [] OTHER -> "returned " \o ToString(status)

\* the handler issues an upstream states call with the headers built from
\* accessToken; on the first call hasAuth is taken from those headers
\* (flights 83-98 and 114-121, cron 39-53 and 69-77)
IssueFetch(r, accessToken, retry) ==
  LET headers == getAuthHeaders(accessToken) IN
  [r EXCEPT !.pc = IF retry THEN "fetch2" ELSE "fetch1",
            !.hasAuth = IF retry THEN r.hasAuth
                        ELSE headers.Authorization # NULL,
            !.authorization = headers.Authorization,
            !.calls = r.calls + 1]

\* getAuthHeaders() called by a handler: either the headers are ready at once
\* and the fetch is issued, or a grant exchange is started and awaited
AcquireHeaders(p, r, tc, retry) ==
  LET d == getAccessTokenSync(tc) IN
  /\ SetTokenCache(tc)
  /\ IF d.await
     THEN req' = [req EXCEPT ![p] =
                    [r EXCEPT !.pc = IF retry THEN "exch2" ELSE "exch1",
                              !.exchanges = r.exchanges + 1]]
     ELSE req' = [req EXCEPT ![p] = IssueFetch(r, d.token, retry)]

(***************************** /api/flights and cron ***********************)
\* a new execution takes the lowest free slot (slots are interchangeable)
CanStart(p) ==
  /\ req[p].pc = "idle"
  /\ \A o \in Procs : o < p => req[o].pc # "idle"
  /\ started < MaxRequests

\* the step returns no response / starts no handler
NoReturn == last' = IdleReq
NoStart == arrived' = NoArrival /\ started' = started
NoGrant == grantReply' = NoGrantReply

\* variant: the handler ends without a response
Throws(p, r, resp) ==
  /\ req' = [req EXCEPT ![p] = IdleReq]
  /\ last' = IdleReq

\* the handler returns resp: its slot is free again, and the execution (its
\* locals and its response) is what the caller last observed
Finish(p, r, resp) ==
  /\ req' = [req EXCEPT ![p] = IdleReq]
  /\ last' = [r EXCEPT !.pc = "done", !.resp = resp]

\* flights/route.js 21-98: from the request to the first network await
StartFlights(p, q, force) ==
  /\ CanStart(p)
  /\ started' = started + 1
  /\ arrived' = Arrival(p, "flights", q, force, Absent)
  /\ NoGrant
  /\ LET r == [IdleReq EXCEPT !.id = started + 1,
                              !.kind = "flights",
                              !.hasBoundingBox = hasBoundingBox(q),
                              !.forceRefresh = forceRefresh(force),
                              !.apiUrl = IF hasBoundingBox(q) THEN q
                                         ELSE NoParams]
     IN IF ServeFromCache(q, force)
        THEN /\ Finish(p, r, CacheHitResponse)
             /\ UNCHANGED <<cachedToken, tokenExpiry>>
        ELSE /\ AcquireHeaders(p, r, TokenCache, FALSE)
             /\ NoReturn
  /\ UNCHANGED <<cachedFlightData, lastUpdateTime, clock, env, hook,
                 requestCache>>

\* variant: a request without Authorization header passes the check
CronWrongHeader(authHeader) ==
  /\ TruthyStr(env.cronSecret)
  /\ authHeader # Absent
  /\ authHeader # "Bearer " \o env.cronSecret

\* cron route 20-31: the CRON_SECRET check rejects the request
CronUnauthorized(authHeader) ==
  TruthyStr(env.cronSecret) /\ authHeader # "Bearer " \o env.cronSecret

\* cron route 16-53: from the trigger to the first network await
StartCron(p, authHeader) ==
  /\ CanStart(p)
  /\ started' = started + 1
  /\ arrived' = Arrival(p, "cron", NoParams, Absent, authHeader)
  /\ NoGrant
  /\ LET r == [IdleReq EXCEPT !.id = started + 1, !.kind = "cron"]
     IN IF CronUnauthorized(authHeader)
        THEN /\ Finish(p, r, [NoResp EXCEPT !.status = 401,
                                               !.kind = "unauthorized"])
             /\ UNCHANGED <<cachedToken, tokenExpiry>>
        ELSE /\ AcquireHeaders(p, r, TokenCache, FALSE)
             /\ NoReturn
  /\ UNCHANGED <<cachedFlightData, lastUpdateTime, clock, env, hook,
                 requestCache>>

\* the grant response arrives: getAccessToken finishes (oauth 64-105),
\* getAuthHeaders builds the headers, the handler issues its states call
ExchangeDone(p, out) ==
  /\ req[p].pc \in {"exch1", "exch2"}
  /\ LET r == req[p]
         res == getAccessTokenResume(MintedToken(r.id, r.pc = "exch2"), out)
     IN /\ SetTokenCache(res.cache)
        /\ req' = [req EXCEPT ![p] = IssueFetch(r, res.token, r.pc = "exch2")]
  /\ grantReply' = GrantReply(p, out)
  /\ NoReturn
  /\ NoStart
  /\ UNCHANGED <<cachedFlightData, lastUpdateTime, clock, env, hook,
                 requestCache>>

\* variant: every 401 on an authenticated request is retried
RetryOnEvery401(r, out) ==
  out.kind = "status" /\ out.status = 401 /\ r.hasAuth

\* variant: a 401 on a first call is retried whatever its headers
RetryOnAny401(r, out) ==
  r.calls = 1 /\ out.kind = "status" /\ out.status = 401

\* flights 110, cron 65: a 401 on a first call that carried a token
RetryOn401(r, out) ==
  r.calls = 1 /\ out.kind = "status" /\ out.status = 401 /\ r.hasAuth

\* variant: every successful fetch is cached
CachesEveryResult(r) == TRUE

\* variant: only the scheduled refresh caches its result
CachesOnlyCron(r) == r.kind = "cron"

\* flights 173: only a global fetch is cached; cron 117-124: always
CachesResult(r) ==
  r.kind = "cron" \/ (r.kind = "flights" /\ ~r.hasBoundingBox)

\* the error thrown when the states call itself fails: the first call maps
\* an abort to the timed-out error (flights 100-107, cron 55-62); the retry
\* has no such mapping (flights 117-121, cron 79-82)
FetchErrorDetails(r, out) ==
  IF out.kind = "abort"
  THEN IF r.calls = 1 THEN "timed out" ELSE "aborted"
  ELSE "fetch failed"

\* flights 126-143, cron 85-88: the error thrown for a non-2xx response
StatusErrorDetails(r, status) ==
  IF r.kind = "flights" THEN FlightsErrorMessage(status, r.hasAuth)
  ELSE "returned " \o ToString(status)

\* the error thrown while reading the body: response.json() rejects
\* (flights 145, cron 90) or the row mapping throws (flights 149, cron 93)
BodyErrorDetails(body) ==
  IF body.parse = "unparsable" THEN "invalid json" ELSE "TypeError"

FailKind(r) == IF r.kind = "flights" THEN "error" ELSE "cron-fail"

\* the data assembled from a parsed body (flights 149-179, cron 93-122)
FetchedData(r, body) ==
  LET flights == NormalizeFlights(body) IN
  [flights |-> flights, time |-> body.time, count |-> Len(flights),
   source |-> SourceTag(r.hasAuth)]

\* flights 184-199, cron 129-135: the success response
SuccessResponse(r, data) ==
  IF r.kind = "flights"
  THEN [NoResp EXCEPT !.status = 200, !.kind = "flights",
                      !.cached = "false", !.flights = data.flights,
                      !.time = data.time, !.count = data.count,
                      !.source = data.source]
  ELSE [NoResp EXCEPT !.status = 200, !.kind = "cron-ok",
                      !.count = data.count, !.source = data.source]

\* the states response (or its failure) arrives: flights 99-207, cron 54-150
\* (the dynamic import before clearTokenCache, flights 112 and cron 67, is of
\* a module already loaded and resolves in the same turn of the event loop)
FetchDone(p, out) ==
  /\ req[p].pc \in {"fetch1", "fetch2"}
  /\ req[p].kind \in {"flights", "cron"}
  /\ LET r == [req[p] EXCEPT !.reply = Reply(out)] IN
     IF out.kind # "status"
     THEN /\ Finish(p, r, ErrorResponse(FailKind(r), FetchErrorDetails(r, out)))
          /\ UNCHANGED <<cachedFlightData, lastUpdateTime, cachedToken,
                         tokenExpiry>>
     ELSE IF RetryOn401(r, out)
     THEN /\ AcquireHeaders(p, [r EXCEPT !.clears = r.clears + 1,
                                         !.rejected = r.authorization],
                            clearTokenCache(TokenCache), TRUE)
          /\ NoReturn
          /\ UNCHANGED <<cachedFlightData, lastUpdateTime>>
     ELSE IF ~ResponseOk(out.status)
     THEN /\ Finish(p, r, ErrorResponse(FailKind(r),
                                        StatusErrorDetails(r, out.status)))
          /\ UNCHANGED <<cachedFlightData, lastUpdateTime, cachedToken,
                         tokenExpiry>>
     ELSE IF out.body.parse # "json"
     THEN /\ Finish(p, r, ErrorResponse(FailKind(r),
                                        BodyErrorDetails(out.body)))
          /\ UNCHANGED <<cachedFlightData, lastUpdateTime, cachedToken,
                         tokenExpiry>>
     ELSE LET data == FetchedData(r, out.body) IN
          /\ IF CachesResult(r) THEN setCachedFlights(data)
             ELSE UNCHANGED <<cachedFlightData, lastUpdateTime>>
          /\ Finish(p, [r EXCEPT !.replaced = IF CachesResult(r)
                                                THEN cachedFlightData
                                                ELSE NoSnapshot],
                    SuccessResponse(r, data))
          /\ UNCHANGED <<cachedToken, tokenExpiry>>
  /\ NoStart
  /\ NoGrant
  /\ UNCHANGED <<clock, env, hook, requestCache>>

\* time passes
Tick ==
  /\ clock < MaxTicks
  /\ clock' = clock + 1
  /\ NoReturn
  /\ NoStart
  /\ NoGrant
  /\ UNCHANGED <<cachedFlightData, lastUpdateTime, cachedToken, tokenExpiry,
                 env, req, hook, requestCache>>

(***************************** useFlightData *******************************)
FETCH_INTERVAL == 10000

\* the hook before its effect has run (part_010 15-22): refs and state as
\* created, no timer, no request
\*   mounted, isFetching, controller: the three refs (controller is "none",
\*     "live" or "aborted")
\*   flights, loading, error, dataSource: the React state
\*   timer: the interval is set;  pending: a fetch is in flight
\*   inFlight: the number of fetches in flight
\*   fired, issued: interval firings and requests issued so far
\*   sinceIssue: ms of interval firings since the last request was issued
\*   gap: sinceIssue when the last request was issued
\*   polled: the last request was issued by the interval
\*   errStreak: rate-limit errors in a row up to the latest fetch that ended
\*   rateErrs: errStreak when the last request was issued
\*   phase: "created", "mounted" or "unmounted"
\*   skipped: the latest fetchFlights call returned at the in-progress test
\*   outcome: how the latest fetch ended ("none" while none has)
HookCreated ==
  [mounted |-> TRUE, isFetching |-> FALSE, controller |-> "none",
   flights |-> "none", loading |-> TRUE, error |-> "", dataSource |-> "none",
   timer |-> FALSE, pending |-> FALSE, inFlight |-> 0,
   fired |-> 0, issued |-> 0,
   sinceIssue |-> 0, gap |-> 0, polled |-> FALSE, rateErrs |-> 0,
   errStreak |-> 0,
   skipped |-> FALSE, outcome |-> "none", phase |-> "created"]

(***************************** RequestCache ********************************)
\* the default ttl of get and cleanup (opensky-oauth.js 196 and 234)
DEFAULT_TTL == 10000

Keys == {"ka", "kb"}
TtlChoices == {DEFAULT_TTL, ShortTtl}

\* this.cache.get(key) of a key the map does not hold
NoEntry == [data |-> 0, timestamp |-> NULL]

\* what the latest get returned: a cached value, the promise registered as
\* pending, or the promise of a fetcher it has just started
NoReturned ==
  [key |-> "none", ttl |-> 0, kind |-> "none", promise |-> 0, data |-> 0]

\* new RequestCache() (184-187): both maps empty.  A promise is named by the
\* number of the fetcher call it comes from, and that fetcher's data is
\* named by the same number.
\*   cache, pending: the two maps (NoEntry / 0: the key is not in the map)
\*   running: the fetchers started and not yet settled, as <<key, number>>
\*   invoked: fetcher calls so far
\*   returned: the result of the latest get
RequestCacheCreated ==
  [cache |-> [k \in Keys |-> NoEntry],
   pending |-> [k \in Keys |-> 0],
   running |-> {},
   invoked |-> 0,
   returned |-> NoReturned]

\* get(key, fetcher, ttl) up to its return (196-219): the object after the
\* call
get(rc, key, ttl) ==
  LET cached == rc.cache[key] IN
  IF cached # NoEntry /\ now - cached.timestamp < ttl
  THEN [rc EXCEPT !.returned = [key |-> key, ttl |-> ttl,
                                kind |-> "cached", promise |-> 0, data |-> cached.data]]
  ELSE IF rc.pending[key] # 0
  THEN [rc EXCEPT !.returned = [key |-> key, ttl |-> ttl,
                                kind |-> "pending", promise |-> rc.pending[key], data |-> 0]]
  ELSE LET n == rc.invoked + 1 IN
       [rc EXCEPT !.invoked = n,
                  !.running = rc.running \cup {<<key, n>>},
                  !.pending[key] = n,
                  !.returned = [key |-> key, ttl |-> ttl,
                                kind |-> "started", promise |-> n, data |-> 0]]

\* the frame of a step of the RequestCache
RequestCacheStep ==
  /\ NoReturn
  /\ NoStart
  /\ NoGrant
  /\ UNCHANGED <<cachedFlightData, lastUpdateTime, cachedToken, tokenExpiry,
                 clock, env, req, hook>>

\* a caller calls get
Get(key, ttl) ==
  /\ LET rc == get(requestCache, key, ttl) IN
     /\ rc.invoked <= MaxFetchers
     /\ requestCache' = rc
  /\ RequestCacheStep

\* 209-213: the promise of fetcher call n for key is fulfilled
FetcherResolves(key, n) ==
  /\ <<key, n>> \in requestCache.running
  /\ requestCache' =
       [requestCache EXCEPT !.cache[key] = [data |-> n, timestamp |-> now],
                            !.pending[key] = 0,
                            !.running = requestCache.running \ {<<key, n>>}]
  /\ RequestCacheStep

\* 213-216: the promise of fetcher call n for key is rejected
FetcherRejects(key, n) ==
  /\ <<key, n>> \in requestCache.running
  /\ requestCache' =
       [requestCache EXCEPT !.pending[key] = 0,
                            !.running = requestCache.running \ {<<key, n>>}]
  /\ RequestCacheStep

\* clear() (225-228)
Clear ==
  /\ requestCache' =
       [requestCache EXCEPT !.cache = [k \in Keys |-> NoEntry],
                            !.pending = [k \in Keys |-> 0]]
  /\ RequestCacheStep

\* cleanup(ttl) (234-241)
Cleanup(ttl) ==
  /\ requestCache' =
       [requestCache EXCEPT
          !.cache = [k \in Keys |->
                       IF requestCache.cache[k] # NoEntry
                            /\ now - requestCache.cache[k].timestamp >= ttl
                       THEN NoEntry ELSE requestCache.cache[k]]]
  /\ RequestCacheStep

RequestCacheNext ==
  \/ \E key \in Keys, ttl \in TtlChoices : Get(key, ttl)
  \/ \E key \in Keys, n \in 1..MaxFetchers : FetcherResolves(key, n)
  \/ \E key \in Keys, n \in 1..MaxFetchers : FetcherRejects(key, n)
  \/ Clear
  \/ \E ttl \in TtlChoices : Cleanup(ttl)
  \/ Tick

(***************************** specification *******************************)
\* process.env: both credentials and the cron secret configured; one
\* credential missing or empty, and no cron secret
EnvChoices ==
  { [clientId |-> "id", clientSecret |-> "secret", cronSecret |-> "s3cret"],
    [clientId |-> "id", clientSecret |-> Absent, cronSecret |-> Absent],
    [clientId |-> "", clientSecret |-> "secret", cronSecret |-> Absent] }

Init ==
  /\ cachedFlightData = NoSnapshot
  /\ lastUpdateTime = NULL
  /\ cachedToken = NULL
  /\ tokenExpiry = NULL
  /\ clock = 0
  /\ env \in EnvChoices
  /\ req = [p \in Procs |-> IdleReq]
  /\ arrived = NoArrival
  /\ grantReply = NoGrantReply
  /\ last = IdleReq
  /\ started = 0
  /\ hook = HookCreated
  /\ requestCache = RequestCacheCreated

Next ==
  \/ \E p \in Procs, c \in PollChoices : StartFlights(p, c.params, c.force)
  \/ \E p \in Procs, h \in AuthHeaderChoices : StartCron(p, h)
  \/ \E p \in Procs, out \in GrantOutcomes : ExchangeDone(p, out)
  \/ \E p \in Procs, out \in FetchOutcomes : FetchDone(p, out)
  \/ Tick

Spec == Init /\ [][Next]_vars

\* every outbound call is answered or aborted by its timer: the grant
\* exchange after at most 15 s (oauth 44-73), a states call after at most
\* 30 s (flights 92-107 and 115-121) or 25 s (cron 47-62 and 71-82)
CallsEnd ==
  \A p \in Procs :
    /\ WF_vars(\E out \in GrantOutcomes : ExchangeDone(p, out))
    /\ WF_vars(\E out \in FetchOutcomes : FetchDone(p, out))

\* the handlers of Spec while the clock is read at most MaxFairTicks times
FairTick ==
  /\ clock < MaxFairTicks
  /\ Tick

FairNext ==
  \/ \E p \in Procs, c \in PollChoices : StartFlights(p, c.params, c.force)
  \/ \E p \in Procs, h \in AuthHeaderChoices : StartCron(p, h)
  \/ \E p \in Procs, out \in GrantOutcomes : ExchangeDone(p, out)
  \/ \E p \in Procs, out \in FetchOutcomes : FetchDone(p, out)
  \/ FairTick

FairSpec == Init /\ [][FairNext]_vars /\ CallsEnd

(***************************** /api/tracks *********************************)
\* an upstream path element:
\* [time, latitude, longitude, baro_altitude, true_track, on_ground]
Point(time, lat, lon, alt, trk, gnd) == <<time, lat, lon, alt, trk, gnd>>

NoTrackBody ==
  [parse |-> "none", meta |-> NoTrackMeta, hasPath |-> FALSE, path |-> <<>>]

\* bodies a 200 answer of the tracks endpoint can carry: a path of which two
\* elements lack a coordinate and one has nothing but its coordinates, a
\* path of two located elements, no path member, and text that is not JSON
TrackBodies ==
  { [parse |-> "json", meta |-> TrackMeta("abc123", "DLH1", 100, 130),
     hasPath |-> TRUE,
     path |-> << Point(100, 50, 10, 3000, 90, 0),
                 Point(110, NULL, 11, 3100, 91, 0),
                 Point(120, 52, NULL, 3200, 92, 0),
                 Point(NULL, 53, 13, NULL, NULL, NULL) >>],
    [parse |-> "json", meta |-> TrackMeta("abc123", "DLH1", 200, 210),
     hasPath |-> TRUE,
     path |-> << Point(200, 60, 20, 0, 180, 1),
                 Point(210, 61, 21, 500, 181, 0) >>],
    [parse |-> "json", meta |-> TrackMeta("abc123", Absent, 300, 300),
     hasPath |-> FALSE, path |-> <<>>],
    [parse |-> "unparsable", meta |-> NoTrackMeta, hasPath |-> FALSE,
     path |-> <<>>] }

\* what the tracks endpoint can answer to one call
TrackOutcomes ==
  [kind : {"abort", "neterr"}, status : {NULL}, body : {NoTrackBody}]
    \cup [kind : {"status"}, status : {401, 404, 429, 500},
          body : {NoTrackBody}]
    \cup [kind : {"status"}, status : {200}, body : TrackBodies]

\* tracks/route.js 104-110: the waypoint made of a path element
Waypoint(point) ==
  [time |-> point[1], latitude |-> point[2], longitude |-> point[3],
   baro_altitude |-> point[4], true_track |-> point[5],
   on_ground |-> point[6]]

RECURSIVE MapWaypoints(_)
MapWaypoints(path) ==
  IF path = <<>> THEN <<>>
  ELSE <<Waypoint(Head(path))>> \o MapWaypoints(Tail(path))

\* variant: only the latitude is looked at
NormalizeByLatitude(body) ==
  IF body.hasPath
  THEN SelectSeq(MapWaypoints(body.path), LAMBDA w : w.latitude # NULL)
  ELSE <<>>

\* tracks/route.js 104-114: map the path, drop waypoints without coordinates
NormalizeTrack(body) ==
  IF body.hasPath
  THEN SelectSeq(MapWaypoints(body.path),
                 LAMBDA w : w.latitude # NULL /\ w.longitude # NULL)
  ELSE <<>>

\* tracks/route.js 82-89: the message for a non-2xx status
TracksErrorMessage(status, hasAuth) ==
  CASE status = 404 -> "no track data"
    [] status = 429 -> IF hasAuth THEN "rate limit: try again later"
                       ELSE "rate limit: configure authentication"
    [] OTHER -> "returned " \o ToString(status)

\* query strings of /api/tracks: icao24 missing, empty or given
Icao24Choices == {Absent, "", "abc123"}
TimeChoices == {Absent, "1700"}

TrackArrival(p, icao24, time) ==
  [Arrival(p, "tracks", NoParams, Absent, Absent)
     EXCEPT !.icao24 = icao24, !.time = time]

\* tracks/route.js 15-51: from the request to the first network await; the
\* upstream URL carries icao24 and time (0 when absent or empty)
StartTracks(p, icao24, time) ==
  /\ CanStart(p)
  /\ started' = started + 1
  /\ arrived' = TrackArrival(p, icao24, time)
  /\ NoGrant
  /\ LET r == [IdleReq EXCEPT !.id = started + 1, !.kind = "tracks"]
     IN IF ~TruthyStr(icao24)
        THEN /\ Finish(p, r, [NoResp EXCEPT !.status = 400,
                                               !.kind = "bad-request"])
             /\ UNCHANGED <<cachedToken, tokenExpiry>>
        ELSE /\ AcquireHeaders(p, r, TokenCache, FALSE)
             /\ NoReturn
  /\ UNCHANGED <<cachedFlightData, lastUpdateTime, clock, env, hook,
                 requestCache>>

\* tracks/route.js 117-127: the success response
TrackResponse(r, body) ==
  [NoResp EXCEPT !.status = 200, !.kind = "track", !.track = body.meta,
                 !.path = NormalizeTrack(body),
                 !.source = SourceTag(r.hasAuth)]

\* the tracks response (or its failure) arrives: tracks/route.js 52-135
TrackFetchDone(p, out) ==
  /\ req[p].pc \in {"fetch1", "fetch2"}
  /\ req[p].kind = "tracks"
  /\ LET r == [req[p] EXCEPT !.reply = Reply(out)] IN
     IF out.kind # "status"
     THEN /\ Finish(p, r, ErrorResponse("error", FetchErrorDetails(r, out)))
          /\ UNCHANGED <<cachedToken, tokenExpiry>>
     ELSE IF RetryOn401(r, out)
     THEN /\ AcquireHeaders(p, [r EXCEPT !.clears = r.clears + 1,
                                         !.rejected = r.authorization],
                            clearTokenCache(TokenCache), TRUE)
          /\ NoReturn
     ELSE IF ~ResponseOk(out.status)
     THEN /\ Finish(p, r, ErrorResponse("error",
                              TracksErrorMessage(out.status, r.hasAuth)))
          /\ UNCHANGED <<cachedToken, tokenExpiry>>
     ELSE IF out.body.parse # "json"
     THEN /\ Finish(p, r, ErrorResponse("error", "invalid json"))
          /\ UNCHANGED <<cachedToken, tokenExpiry>>
     ELSE /\ Finish(p, r, TrackResponse(r, out.body))
          /\ UNCHANGED <<cachedToken, tokenExpiry>>
  /\ NoStart
  /\ NoGrant
  /\ UNCHANGED <<cachedFlightData, lastUpdateTime, clock, env, hook,
                 requestCache>>

\* /api/tracks handlers alone, sharing the token cache
TrackNext ==
  \/ \E p \in Procs, i \in Icao24Choices, t \in TimeChoices :
       StartTracks(p, i, t)
  \/ \E p \in Procs, out \in GrantOutcomes : ExchangeDone(p, out)
  \/ \E p \in Procs, out \in TrackOutcomes : TrackFetchDone(p, out)
  \/ Tick

TrackSpec == Init /\ [][TrackNext]_vars

\* the three handlers together
ServerNext ==
  \/ \E p \in Procs, c \in PollChoices : StartFlights(p, c.params, c.force)
  \/ \E p \in Procs, h \in AuthHeaderChoices : StartCron(p, h)
  \/ \E p \in Procs, i \in Icao24Choices, t \in TimeChoices :
       StartTracks(p, i, t)
  \/ \E p \in Procs, out \in GrantOutcomes : ExchangeDone(p, out)
  \/ \E p \in Procs, out \in FetchOutcomes : FetchDone(p, out)
  \/ \E p \in Procs, out \in TrackOutcomes : TrackFetchDone(p, out)
  \/ Tick

ServerSpec == Init /\ [][ServerNext]_vars

(***************************** useFlightData: steps ************************)
\* variant: the call does not look at the in-progress flag
fetchFlightsUnguarded(h, showLoading, byInterval) ==
  [h EXCEPT !.skipped = FALSE,
            !.controller = "live",
            !.isFetching = TRUE,
            !.loading = IF showLoading /\ h.flights = "none" THEN TRUE
                        ELSE h.loading,
            !.error = "",
            !.pending = TRUE,
            !.inFlight = h.inFlight + 1,
            !.issued = h.issued + 1,
            !.gap = h.sinceIssue,
            !.polled = byInterval,
            !.sinceIssue = 0,
            !.rateErrs = h.errStreak]

\* fetchFlights(bounds, showLoading, zoom) up to its await (part_010 28-59):
\* the hook after the call
fetchFlights(h, showLoading, byInterval) ==
  IF h.isFetching
  THEN [h EXCEPT !.skipped = TRUE]
  ELSE [h EXCEPT !.skipped = FALSE,
                 !.controller = "live",
                 !.isFetching = TRUE,
                 !.loading = IF showLoading /\ h.flights = "none" THEN TRUE
                             ELSE h.loading,
                 !.error = "",
                 !.pending = TRUE,
                 !.inFlight = h.inFlight + 1,
                 !.issued = h.issued + 1,
                 !.gap = h.sinceIssue,
                 !.polled = byInterval,
                 !.sinceIssue = 0,
                 !.rateErrs = h.errStreak]

\* a fetchFlights call that issues a request stays within the bound
WithinIssued(h) == h.isFetching \/ h.issued < MaxIssued

\* part_010 94-103: the effect runs on mount
Mount ==
  /\ hook.phase = "created"
  /\ hook' = [fetchFlights([hook EXCEPT !.mounted = TRUE], TRUE, FALSE)
                EXCEPT !.timer = TRUE, !.phase = "mounted"]
  /\ UNCHANGED <<serverVars, requestCache>>

\* part_010 101-103: the interval fires
IntervalFires ==
  /\ hook.timer
  /\ hook.fired < MaxPolls
  /\ WithinIssued(hook)
  /\ hook' = fetchFlights([hook EXCEPT !.fired = hook.fired + 1,
                                       !.sinceIssue = hook.sinceIssue
                                                        + FETCH_INTERVAL],
                          FALSE, TRUE)
  /\ UNCHANGED <<serverVars, requestCache>>

\* part_001 26-28 and 37: the page calls fetchFlights (manual refresh, the
\* retry button)
ManualFetch ==
  /\ hook.phase = "mounted"
  /\ WithinIssued(hook)
  /\ hook' = fetchFlights(hook, FALSE, FALSE)
  /\ UNCHANGED <<serverVars, requestCache>>

\* how a request to /api/flights can end for the hook: a 200 with flights, a
\* 200 whose body cannot be used, the 500 of a rate-limited fetch, another
\* non-2xx answer, a network error, the abort of its controller
HookOutcomes ==
  {"ok", "badbody", "http-ratelimit", "http-other", "neterr", "abort"}

\* variant: the in-progress flag is cleared only where the function runs to
\* its end, not where it returns early
FetchSettlesNoFinally(outcome) ==
  /\ hook.pending
  /\ outcome = "abort" => hook.controller = "aborted"
  /\ LET early == outcome = "abort" \/ (outcome = "ok" /\ ~hook.mounted)
         h == [hook EXCEPT !.pending = hook.inFlight > 1,
                           !.inFlight = hook.inFlight - 1,
                           !.isFetching = early,
                           !.skipped = FALSE, !.outcome = outcome,
                           !.errStreak = IF outcome = "http-ratelimit"
                                         THEN hook.errStreak + 1 ELSE 0]
     IN hook' =
          IF outcome = "abort" \/ ~hook.mounted THEN h
          ELSE IF outcome = "ok"
          THEN [h EXCEPT !.flights = "data", !.dataSource = "api",
                         !.loading = FALSE]
          ELSE [h EXCEPT !.error = outcome, !.loading = FALSE]
  /\ UNCHANGED <<serverVars, requestCache>>

\* part_010 60-90: the request ends
FetchSettles(outcome) ==
  /\ hook.pending
  /\ outcome = "abort" => hook.controller = "aborted"
  /\ LET h == [hook EXCEPT !.pending = hook.inFlight > 1,
                           !.inFlight = hook.inFlight - 1,
                           !.isFetching = FALSE,
                           !.skipped = FALSE, !.outcome = outcome,
                           !.errStreak = IF outcome = "http-ratelimit"
                                         THEN hook.errStreak + 1 ELSE 0]
     IN hook' =
          IF outcome = "abort" \/ ~hook.mounted THEN h
          ELSE IF outcome = "ok"
          THEN [h EXCEPT !.flights = "data", !.dataSource = "api",
                         !.loading = FALSE]
          ELSE [h EXCEPT !.error = outcome, !.loading = FALSE]
  /\ UNCHANGED <<serverVars, requestCache>>

\* part_010 105-111: the cleanup runs on unmount
Unmount ==
  /\ hook.phase = "mounted"
  /\ hook' = [hook EXCEPT !.mounted = FALSE, !.timer = FALSE,
                          !.phase = "unmounted", !.skipped = FALSE,
                          !.controller = IF hook.controller = "none"
                                         THEN "none" ELSE "aborted"]
  /\ UNCHANGED <<serverVars, requestCache>>

HookNext ==
  \/ Mount
  \/ IntervalFires
  \/ ManualFetch
  \/ \E outcome \in HookOutcomes : FetchSettles(outcome)
  \/ Unmount

HookSpec == Init /\ [][HookNext]_vars

\* the RequestCache alone
RequestCacheSpec == Init /\ [][RequestCacheNext]_vars

(***************************** claims **************************************)
\* all four bounds were supplied with a value
CompleteBounds(q) ==
  \A v \in {q.lamin, q.lomin, q.lamax, q.lomax} : v # Absent /\ v # ""

\* the request that arrived is a poll without bounding box and force flag
PlainPoll(a) ==
  a.kind = "flights" /\ ~CompleteBounds(a.params) /\ a.force # "true"

InFlight(r) == r.pc \in {"exch1", "fetch1", "exch2", "fetch2"}

\* C1: a poll of /api/flights without bounding box and force flag is answered
\* from the cache only when the snapshot is younger than 10 s; with a snapshot
\* aged 10 s or more (45 s, say) the handler goes on to an upstream fetch.
C1_OnlyFreshSnapshotServed ==
  /\ last.resp.cached = "true" => now - lastUpdateTime < 10000
  /\ ( /\ PlainPoll(arrived)
       /\ cachedFlightData # NoSnapshot
       /\ now - lastUpdateTime >= 10000 )
     => last = IdleReq /\ InFlight(req[arrived.slot])

\* the states call failed: timeout, network error or a non-2xx status
FetchFailed(reply) ==
  \/ reply.kind \in {"abort", "neterr"}
  \/ reply.kind = "status" /\ (reply.status < 200 \/ reply.status > 299)

Got401(reply) == reply.kind = "status" /\ reply.status = 401

\* C2 (as claimed): when the upstream fetch of a poll fails and a snapshot
\* cached earlier is present, the client receives that snapshot; an error
\* response is returned only when no snapshot is cached.
C2_FailedPollServesSnapshot ==
  (last.kind = "flights" /\ FetchFailed(last.reply))
    => IF cachedFlightData # NoSnapshot /\ lastUpdateTime < now
       THEN /\ last.resp.status = 200
            /\ last.resp.flights = cachedFlightData.flights
       ELSE last.resp.kind = "error"

\* C2 (amended): when the upstream fetch of a poll fails, the client receives
\* the 500 error response whether or not a snapshot is cached; the response
\* carries no flights and the cached snapshot stays as it was.
C2_FailedPollIsError ==
  [][ (last'.kind = "flights" /\ FetchFailed(last'.reply))
        => /\ last'.resp.kind = "error"
           /\ last'.resp.status = 500
           /\ last'.resp.flights = <<>>
           /\ last'.resp.cached = "absent"
           /\ UNCHANGED <<cachedFlightData, lastUpdateTime>> ]_vars

C2_Witness ==
  /\ last.kind = "flights"
  /\ FetchFailed(last.reply)
  /\ last.resp.kind = "error"
  /\ cachedFlightData # NoSnapshot
  /\ lastUpdateTime < now

\* C3 (as claimed): a 401 on an authenticated call is followed by exactly one
\* retry, sent with a freshly exchanged token; a second 401 ends the request
\* with the authentication-failure error, and there is never a third call.
C3_RetryWithFreshToken ==
  /\ \A p \in Procs :
       /\ req[p].calls <= 2
       /\ req[p].pc = "fetch2"
            => /\ req[p].authorization # NULL
               /\ req[p].authorization # req[p].rejected
  /\ last.calls <= 2
  /\ (Got401(last.reply) /\ last.hasAuth) => last.calls = 2
  /\ last.clears >= 1
       => /\ last.calls = 2
          /\ last.authorization # NULL
          /\ last.authorization # last.rejected
          /\ Got401(last.reply)
               => /\ last.resp.status = 500
                  /\ last.resp.details = "authentication failed"

\* C3 (amended): a 401 on an authenticated call is followed by one
\* invalidation and exactly one retry, sent with the headers derived after the
\* invalidation: a freshly exchanged token, or no Authorization header when
\* the exchange failed.  A second 401 ends the request with an error response
\* (the authentication-failure message for /api/flights, the "returned 401"
\* summary for the scheduled refresh), and there is never a third call.
C3_RetryOnceAfter401 ==
  /\ \A p \in Procs :
       /\ req[p].calls <= 2
       /\ req[p].clears <= 1
       /\ req[p].pc \in {"exch2", "fetch2"} => req[p].clears = 1
       /\ req[p].pc = "fetch2"
            => /\ req[p].calls = 2
               /\ req[p].rejected # NULL
               /\ req[p].authorization # req[p].rejected
               /\ req[p].authorization # NULL => req[p].exchanges >= 1
  /\ last.calls <= 2
  /\ (Got401(last.reply) /\ last.hasAuth) => last.calls = 2
  /\ last.clears >= 1
       => /\ last.calls = 2
          /\ last.clears = 1
          /\ last.authorization # last.rejected
          /\ Got401(last.reply)
               => /\ last.resp.status = 500
                  /\ last.resp.flights = <<>>
                  /\ last.resp.details =
                       IF last.kind = "flights" THEN "authentication failed"
                       ELSE "returned 401"

C3_Witness ==
  /\ last.clears = 1
  /\ last.calls = 2
  /\ last.authorization # NULL
  /\ Got401(last.reply)

\* slot p takes a step
Moves(p) == req'[p] # req[p]

\* the handler that returned was a fetch that succeeded
Succeeded(r) == r.pc = "done" /\ r.resp.status = 200 /\ r.resp.cached # "true"

\* C4: a request with a complete bounding box never changes the snapshot
\* cache, whatever its outcome; every successful fetch without a complete
\* bounding box (fallback, forced or scheduled) replaces the cached snapshot
\* with what it fetched, captured at the instant it returns.
C4_OnlyGlobalFetchesWriteCache ==
  [][ /\ \A p \in Procs :
           (Moves(p) /\ (req[p].hasBoundingBox \/ req'[p].hasBoundingBox
                           \/ last'.hasBoundingBox))
             => UNCHANGED <<cachedFlightData, lastUpdateTime>>
      /\ (arrived'.kind = "flights" /\ CompleteBounds(arrived'.params))
           => /\ last' = IdleReq
              /\ req'[arrived'.slot].hasBoundingBox
      /\ (arrived'.kind = "flights" /\ ~CompleteBounds(arrived'.params)
            /\ last' = IdleReq)
           => ~req'[arrived'.slot].hasBoundingBox
      /\ (Succeeded(last') /\ ~last'.hasBoundingBox)
           => /\ lastUpdateTime' = now'
              /\ cachedFlightData'.cachedAt = now'
              /\ cachedFlightData'.count = last'.resp.count
              /\ cachedFlightData'.source = last'.resp.source
              /\ last'.kind = "flights"
                   => /\ cachedFlightData'.flights = last'.resp.flights
                      /\ cachedFlightData'.time = last'.resp.time ]_vars

C4_Witness ==
  /\ Succeeded(last)
  /\ last.hasBoundingBox
  /\ cachedFlightData # NoSnapshot
  /\ cachedFlightData.flights # last.resp.flights

\* the token cache holds a token that is inside its validity window
TokenStillValid ==
  cachedToken # NULL /\ tokenExpiry # NULL /\ now < tokenExpiry - 300000

\* the step starts a handler that goes on to ask for the auth headers
CallsGetAccessToken == arrived' # NoArrival /\ last' = IdleReq

\* C5: while now < expiry - 5 min, getAccessToken returns the cached token
\* and starts no grant exchange (and leaves the cache alone, so repeated calls
\* return the same token); the first call at or after that boundary starts
\* exactly one exchange.
C5_CachedTokenUntilBoundary ==
  [][ CallsGetAccessToken
        => LET r == req'[arrived'.slot] IN
           IF TokenStillValid
           THEN /\ r.pc = "fetch1"
                /\ r.authorization = cachedToken
                /\ r.exchanges = 0
                /\ UNCHANGED <<cachedToken, tokenExpiry>>
           ELSE (env.clientId \notin {Absent, ""}
                   /\ env.clientSecret \notin {Absent, ""})
                  => /\ r.pc = "exch1"
                     /\ r.exchanges = 1
                     /\ r.calls = 0 ]_vars

\* a handler reuses, after time has passed, a token exchanged by an earlier one
C5_Witness ==
  \E p \in Procs :
    /\ req[p].pc = "fetch1"
    /\ req[p].exchanges = 0
    /\ req[p].authorization # NULL
    /\ req[p].authorization = cachedToken
    /\ clock > 0

\* C6: after clearTokenCache() the next getAccessToken() (credentials being
\* configured) starts a fresh grant exchange, and what it returns is never the
\* token that was cached before the invalidation.
C6_InvalidateForcesExchange ==
  [][ \A p \in Procs :
        /\ req'[p].clears = req[p].clears + 1
             => /\ req'[p].pc = "exch2"
                /\ req'[p].exchanges = req[p].exchanges + 1
                /\ req'[p].rejected = req[p].authorization
                /\ cachedToken' = NULL
                /\ tokenExpiry' = NULL
        /\ req'[p].pc = "fetch2"
             => req'[p].authorization # req'[p].rejected ]_vars

C6_Witness ==
  \E p \in Procs :
    /\ req[p].pc = "fetch2"
    /\ req[p].rejected # NULL
    /\ req[p].authorization # NULL
    /\ req[p].authorization # req[p].rejected
    /\ cachedToken = req[p].authorization

\* C7: whatever makes the grant exchange fail (network error or timeout,
\* non-2xx answer, unparsable body, body without access_token), getAccessToken
\* returns null without throwing (the handler goes on to its states call,
\* without Authorization) and the token cache is left empty: token and
\* expiry both null.
C7_FailedExchangeClearsCache ==
  grantReply.kind \in {"neterr", "non2xx", "badjson", "notoken"}
    => /\ cachedToken = NULL
       /\ tokenExpiry = NULL
       /\ req[grantReply.slot].pc \in {"fetch1", "fetch2"}
       /\ req[grantReply.slot].authorization = NULL
       /\ last = IdleReq

\* the exchange of a later handler fails after time has passed
C7_Witness ==
  /\ grantReply.kind = "notoken"
  /\ req[grantReply.slot].id = 2
  /\ req[grantReply.slot].pc = "fetch1"
  /\ clock >= 2

CredentialMissing ==
  env.clientId \in {Absent, ""} \/ env.clientSecret \in {Absent, ""}

\* C8: with no token cached and the client id or the client secret missing,
\* getAccessToken returns null at once: no grant exchange is ever started,
\* and the handler proceeds to an anonymous states call instead of failing.
C8_NoCredentialsNoExchange ==
  CredentialMissing
    => /\ cachedToken = NULL
       /\ grantReply = NoGrantReply
       /\ last.exchanges = 0
       /\ \A p \in Procs :
            /\ req[p].exchanges = 0
            /\ req[p].pc \in {"idle", "fetch1"}
            /\ req[p].pc = "fetch1"
                 => /\ req[p].authorization = NULL
                    /\ ~req[p].hasAuth
                    /\ req[p].calls = 1
       /\ (arrived # NoArrival /\ last = IdleReq)
            => req[arrived.slot].pc = "fetch1"
       /\ Succeeded(last) => last.resp.source = "opensky-anonymous"

C8_Witness ==
  /\ CredentialMissing
  /\ Succeeded(last)
  /\ last.resp.source = "opensky-anonymous"
  /\ last.calls = 1

\* Math.round of ms / 1000, stated by its defining inequality
RoundedSeconds(ms) ==
  CHOOSE n \in 0..((ms \div 1000) + 1) :
    1000 * n - 500 <= ms /\ ms < 1000 * n + 500

\* C9: a poll without complete bounding box and force flag that finds a
\* snapshot younger than 10 s is answered from the cache: no states call, no
\* grant exchange, both caches unchanged, and the response carries
\* cached=true, the age in seconds and the snapshot's flights, time, count
\* and provenance.
C9_FreshSnapshotServedFromCache ==
  [][ ( /\ PlainPoll(arrived')
        /\ cachedFlightData # NoSnapshot
        /\ now - lastUpdateTime < 10000 )
        => /\ last'.pc = "done"
           /\ last'.resp.status = 200
           /\ last'.resp.cached = "true"
           /\ last'.resp.cacheAge = RoundedSeconds(now - lastUpdateTime)
           /\ last'.resp.flights = cachedFlightData.flights
           /\ last'.resp.time = cachedFlightData.time
           /\ last'.resp.count = cachedFlightData.count
           /\ last'.resp.source = cachedFlightData.source
           /\ last'.calls = 0
           /\ last'.exchanges = 0
           /\ req' = req
           /\ UNCHANGED <<cachedFlightData, lastUpdateTime, cachedToken,
                          tokenExpiry>> ]_vars

C9_Witness ==
  /\ PlainPoll(arrived)
  /\ last.resp.cached = "true"
  /\ now - lastUpdateTime = 4600
  /\ last.resp.cacheAge = 5
  /\ Len(last.resp.flights) = 2

\* C10: a request with a complete bounding box is never answered from the
\* cache, however fresh the snapshot: the handler goes on to an upstream call
\* whose URL carries the four bounds, and its response has cached=false.
C10_BoundingBoxBypassesCache ==
  /\ (arrived.kind = "flights" /\ CompleteBounds(arrived.params))
       => /\ last = IdleReq
          /\ InFlight(req[arrived.slot])
          /\ req[arrived.slot].hasBoundingBox
          /\ req[arrived.slot].apiUrl = arrived.params
  /\ \A p \in Procs :
       (req[p].hasBoundingBox /\ req[p].pc \in {"fetch1", "fetch2"})
         => CompleteBounds(req[p].apiUrl) /\ req[p].calls >= 1
  /\ last.hasBoundingBox
       => /\ last.calls >= 1
          /\ CompleteBounds(last.apiUrl)
          /\ last.resp.cached # "true"
          /\ last.resp.status = 200 => last.resp.cached = "false"

\* a bounding-box request is answered by a fetch while the snapshot is fresh
C10_Witness ==
  /\ last.hasBoundingBox
  /\ last.resp.status = 200
  /\ last.resp.cached = "false"
  /\ cachedFlightData # NoSnapshot
  /\ now - lastUpdateTime < 10000

\* C11: a request with force=true and no complete bounding box is never
\* answered from the cache, even when the snapshot is fresh: it goes on to an
\* upstream call for the global URL, and when that call succeeds the cached
\* snapshot is replaced by the fetched result.
C11_ForcedRefreshBypassesCache ==
  [][ /\ ( /\ arrived'.kind = "flights"
           /\ arrived'.force = "true"
           /\ ~CompleteBounds(arrived'.params) )
        => /\ last' = IdleReq
           /\ InFlight(req'[arrived'.slot])
           /\ req'[arrived'.slot].forceRefresh
           /\ ~req'[arrived'.slot].hasBoundingBox
           /\ req'[arrived'.slot].apiUrl = NoParams
      /\ last'.forceRefresh
           => /\ last'.calls >= 1
              /\ last'.resp.cached # "true"
      /\ (Succeeded(last') /\ last'.forceRefresh /\ ~last'.hasBoundingBox)
           => /\ last'.resp.cached = "false"
              /\ lastUpdateTime' = now'
              /\ cachedFlightData' =
                   [flights |-> last'.resp.flights, time |-> last'.resp.time,
                    count |-> last'.resp.count, source |-> last'.resp.source,
                    cachedAt |-> now'] ]_vars

\* a forced refresh, the second request within the first 4.6 s, succeeds and
\* its result is the cached snapshot
C11_Witness ==
  /\ Succeeded(last)
  /\ last.forceRefresh
  /\ ~last.hasBoundingBox
  /\ last.id = 2
  /\ clock <= 1
  /\ cachedFlightData.time = 1710
  /\ cachedFlightData.flights = last.resp.flights
  /\ lastUpdateTime = now

\* a forced refresh arrives while the snapshot is younger than 10 s
C11_ArrivesWhileFresh ==
  /\ arrived.force = "true"
  /\ cachedFlightData # NoSnapshot
  /\ now - lastUpdateTime < 10000
  /\ InFlight(req[arrived.slot])

\* the first grant exchange of the execution failed: an exchange was started
\* and the first states call went out without Authorization
ExchangeFailedIn(r) == r.exchanges >= 1 /\ ~r.hasAuth

\* the last states call answered 200 with a body that is not JSON
UnparsableBody(reply) ==
  reply.kind = "status" /\ reply.status = 200 /\ reply.body.parse # "json"

\* C12 (as claimed): a scheduled refresh in which any step fails (the token
\* exchange, or the states call by timeout, network error, non-2xx status or
\* unparsable body) returns a failure summary.
C12_AnyFailedStepFailsRefresh ==
  ( /\ last.kind = "cron"
    /\ \/ ExchangeFailedIn(last)
       \/ FetchFailed(last.reply)
       \/ UnparsableBody(last.reply) )
    => last.resp.kind = "cron-fail"

\* C12 (amended): a scheduled refresh whose states call fails (timeout,
\* network error, non-2xx status, unparsable body) returns the 500 failure
\* summary, and no step of a refresh that does not end in success writes the
\* snapshot cache.  A failed token exchange does not fail the refresh: it
\* leaves the snapshot cache alone and the refresh goes on to an anonymous
\* states call.
C12_FailedRefreshKeepsSnapshot ==
  [][ /\ \A p \in Procs :
           ( /\ Moves(p)
             /\ req[p].kind = "cron" \/ last'.kind = "cron"
                  \/ req'[p].kind = "cron"
             /\ ~Succeeded(last') )
             => UNCHANGED <<cachedFlightData, lastUpdateTime>>
      /\ ( /\ last'.kind = "cron"
           /\ FetchFailed(last'.reply) \/ UnparsableBody(last'.reply) )
           => /\ last'.resp.kind = "cron-fail"
              /\ last'.resp.status = 500
              /\ last'.resp.details # ""
      /\ (last'.kind = "cron" /\ last'.resp.kind = "cron-ok")
           => /\ last'.reply.kind = "status"
              /\ last'.reply.status = 200
              /\ last'.reply.body.parse = "json"
      /\ ( /\ grantReply'.kind \in {"neterr", "non2xx", "badjson", "notoken"}
           /\ req[grantReply'.slot].kind = "cron" )
           => /\ UNCHANGED <<cachedFlightData, lastUpdateTime>>
              /\ last' = IdleReq
              /\ req'[grantReply'.slot].pc \in {"fetch1", "fetch2"}
              /\ req'[grantReply'.slot].authorization = NULL ]_vars

\* a scheduled refresh fails on a non-2xx status while a snapshot cached
\* earlier is in place
C12_Witness ==
  /\ last.kind = "cron"
  /\ last.resp.kind = "cron-fail"
  /\ last.reply.kind = "status"
  /\ last.reply.status = 503
  /\ cachedFlightData # NoSnapshot
  /\ lastUpdateTime < now

\* the handler of slot p takes a step that is not its return
StaysInFlight(p) ==
  /\ InFlight(req'[p])
  /\ req'[p].id = req[p].id
  /\ last' = IdleReq

\* the handler of slot p returns resp to its caller
Returns(p) ==
  /\ req'[p] = IdleReq
  /\ last'.pc = "done"
  /\ last'.id = req[p].id

StructuredError(resp) ==
  /\ resp.status = 500
  /\ resp.kind = "error"
  /\ resp.details # ""
  /\ resp.flights = <<>>

\* C13: every step of a /api/flights handler either moves it to its next
\* await or returns a response; a request never ends otherwise.  Whatever
\* fails inside it (token acquisition, first fetch, retry fetch, non-2xx
\* status, body parsing, normalization) the response returned is the
\* structured 500 error, and every response is either that or a 200.
C13_FlightsAlwaysAnswers ==
  [][ /\ \A p \in Procs :
           (Moves(p) /\ req[p].kind = "flights")
             => StaysInFlight(p) \/ Returns(p)
      /\ (arrived'.kind = "flights")
           => \/ InFlight(req'[arrived'.slot]) /\ last' = IdleReq
              \/ last'.pc = "done" /\ last'.id = started'
      /\ (last'.kind = "flights")
           => /\ last'.pc = "done"
              /\ \/ last'.resp.status = 200 /\ last'.resp.kind = "flights"
                 \/ StructuredError(last'.resp)
      /\ ( /\ last'.kind = "flights"
           /\ FetchFailed(last'.reply) \/ UnparsableBody(last'.reply) )
           => StructuredError(last'.resp) ]_vars

\* the retry of a request is aborted, and the request is answered with the
\* structured error
C13_Witness ==
  /\ last.kind = "flights"
  /\ last.calls = 2
  /\ last.reply.kind = "abort"
  /\ StructuredError(last.resp)

\* the row mapping throws and the request is answered with the structured
\* error
C13_NormalizationThrows ==
  /\ last.kind = "flights"
  /\ last.reply.body.parse = "json-badrows"
  /\ StructuredError(last.resp)

\* C14: hasFreshCache() is true if and only if a snapshot exists and its age
\* is below the 10 s fresh window.
C14_HasFreshCacheIsTenSeconds ==
  hasFreshCache
    <=> (cachedFlightData # NoSnapshot /\ now - lastUpdateTime < 10000)

\* the three-way classification the flags of getCachedFlights() report
Classify(c) ==
  IF c.isFresh THEN "fresh" ELSE IF c.isStale THEN "expired" ELSE "stale"

\* C15: the flags reported for a snapshot classify its age as fresh in
\* [0, 10 s), stale in [10 s, 60 s) and expired from 60 s on; exactly 10 s is
\* not fresh and exactly 60 s is expired.
C15_FlagsPartitionAges ==
  cachedFlightData # NoSnapshot
    => LET age == now - lastUpdateTime IN
       Classify(getCachedFlights) =
         IF age < 10000 THEN "fresh"
         ELSE IF age < 60000 THEN "stale" ELSE "expired"

\* the request's first states call carried a token
AuthenticatedRequest(r) ==
  IF r.clears = 0 THEN r.authorization # NULL ELSE r.rejected # NULL

HasCoordinates(f) == f.longitude # NULL /\ f.latitude # NULL

\* the rows of a sequence that have both coordinates, in their order
RECURSIVE Kept(_)
Kept(rows) ==
  IF rows = <<>> THEN <<>>
  ELSE (IF HasCoordinates(Head(rows)) THEN <<Head(rows)>> ELSE <<>>)
         \o Kept(Tail(rows))

\* the rows a parsed body carries
RowsOf(body) == IF body.hasStates THEN body.states ELSE <<>>

\* the handler that returned made a successful fetch that is cached
SetCalled(r) ==
  Succeeded(r) /\ (r.kind = "cron" \/ (r.kind = "flights" /\ ~r.hasBoundingBox))

\* the snapshot value a returned handler passed to setCachedFlights, derived
\* from the body it was answered and the token of its first call
ValueSet(r) ==
  [flights |-> Kept(RowsOf(r.reply.body)), time |-> r.reply.body.time,
   count |-> Len(Kept(RowsOf(r.reply.body))),
   source |-> IF AuthenticatedRequest(r) THEN "opensky-authenticated"
              ELSE "opensky-anonymous"]

SameValue(snap, v) ==
  /\ snap.flights = v.flights
  /\ snap.time = v.time
  /\ snap.count = v.count
  /\ snap.source = v.source

\* C17: under every interleaving of handlers and refreshes the snapshot cache
\* is either empty (no data, no update time) or one whole snapshot: flights,
\* time, count and source are those of one parsed body of one successful
\* fetch, with a capture instant; what getCachedFlights() hands to a reader
\* is that snapshot, never a mix and never data without a capture time.
C17_SnapshotIsWhole ==
  /\ \/ cachedFlightData = NoSnapshot /\ lastUpdateTime = NULL
     \/ /\ cachedFlightData # NoSnapshot
        /\ lastUpdateTime # NULL
        /\ cachedFlightData.cachedAt # NULL
        /\ cachedFlightData.cachedAt <= lastUpdateTime
        /\ lastUpdateTime <= now
        /\ cachedFlightData.source
             \in {"opensky-authenticated", "opensky-anonymous"}
        /\ \E b \in Bodies :
             /\ b.parse = "json"
             /\ cachedFlightData.time = b.time
             /\ cachedFlightData.flights = Kept(RowsOf(b))
             /\ cachedFlightData.count = Len(Kept(RowsOf(b)))
  /\ getCachedFlights.present <=> cachedFlightData # NoSnapshot
  /\ getCachedFlights.present
       => /\ getCachedFlights.data = cachedFlightData
          /\ getCachedFlights.cacheAge = now - lastUpdateTime
          /\ getCachedFlights.cacheAge >= 0
  /\ SetCalled(last) => SameValue(cachedFlightData, ValueSet(last))
  /\ last.resp.cached = "true"
       => /\ SameValue(last.resp, cachedFlightData)
          /\ cachedFlightData # NoSnapshot

\* a scheduled refresh has replaced a snapshot by one from a different body
\* and a different kind of call, and the cache holds the new one whole
C17_Witness ==
  /\ SetCalled(last)
  /\ last.kind = "cron"
  /\ last.replaced # NoSnapshot
  /\ last.replaced.time # cachedFlightData.time
  /\ last.replaced.source # cachedFlightData.source
  /\ SameValue(cachedFlightData, ValueSet(last))
  /\ getCachedFlights.data = cachedFlightData

\* C18: the snapshot cache changes only by a set call, and after a set call
\* it holds exactly the value passed to that call (nothing of the snapshot it
\* replaced) with the capture instant set to the time of the call; so among
\* overlapping fetches the one that completes last wins, and the capture
\* instant of the cached snapshot never decreases.
C18_LastWriterWins ==
  [][ /\ SetCalled(last')
           => /\ SameValue(cachedFlightData', ValueSet(last'))
              /\ cachedFlightData'.cachedAt = now'
              /\ lastUpdateTime' = now'
              /\ last'.replaced = cachedFlightData
      /\ ~SetCalled(last')
           => UNCHANGED <<cachedFlightData, lastUpdateTime>>
      /\ lastUpdateTime # NULL
           => lastUpdateTime' # NULL /\ lastUpdateTime' >= lastUpdateTime
      /\ cachedFlightData # NoSnapshot
           => /\ cachedFlightData' # NoSnapshot
              /\ cachedFlightData'.cachedAt >= cachedFlightData.cachedAt
    ]_vars

\* of two overlapping fetches the one started first completes last, after
\* time has passed, and replaces the snapshot the other one had set
C18_Witness ==
  /\ SetCalled(last)
  /\ last.id = 1
  /\ started = 2
  /\ \A p \in Procs : req[p].pc = "idle"
  /\ last.replaced # NoSnapshot
  /\ last.replaced.cachedAt < cachedFlightData.cachedAt
  /\ last.replaced.time # cachedFlightData.time
  /\ SameValue(cachedFlightData, ValueSet(last))

\* C19: a set call with the value the cached snapshot already has leaves
\* what getCachedFlights() returns as it was in flights, time, count and
\* source; only the capture instant and the fields derived from the age are
\* reset.
C19_SetTwiceSameValue ==
  [][ ( /\ SetCalled(last')
        /\ cachedFlightData # NoSnapshot
        /\ SameValue(cachedFlightData, ValueSet(last')) )
        => /\ getCachedFlights'.present
           /\ SameValue(getCachedFlights'.data, getCachedFlights.data)
           /\ getCachedFlights'.data.cachedAt = now'
           /\ getCachedFlights'.cacheAge = 0
           /\ getCachedFlights'.cacheAgeSeconds = 0
           /\ getCachedFlights'.isFresh
           /\ ~getCachedFlights'.isStale ]_vars

\* the same two-flight value is set a second time, later than the first
C19_Witness ==
  /\ SetCalled(last)
  /\ last.replaced # NoSnapshot
  /\ SameValue(last.replaced, ValueSet(last))
  /\ SameValue(cachedFlightData, ValueSet(last))
  /\ Len(cachedFlightData.flights) = 2
  /\ last.replaced.cachedAt < cachedFlightData.cachedAt
  /\ getCachedFlights.cacheAge = 0

RECURSIVE LocatedWaypoints(_)
LocatedWaypoints(path) ==
  IF path = <<>> THEN <<>>
  ELSE LET pt == Head(path) IN
       (IF pt[2] # NULL /\ pt[3] # NULL
        THEN <<[time |-> pt[1], latitude |-> pt[2], longitude |-> pt[3],
                baro_altitude |-> pt[4], true_track |-> pt[5],
                on_ground |-> pt[6]]>>
        ELSE <<>>) \o LocatedWaypoints(Tail(path))

PathOf(body) == IF body.hasPath THEN body.path ELSE <<>>

TrackAnswered(r) == r.kind = "tracks" /\ r.pc = "done" /\ r.resp.status = 200

\* C21: the track returned is made of the upstream path elements, each mapped
\* to a waypoint with time, latitude, longitude, baro_altitude, true_track and
\* on_ground from positions 1 to 6; exactly the waypoints without a latitude
\* or a longitude are dropped, and the others keep their upstream order (two
\* located elements give two waypoints).
C21_TrackNormalization ==
  /\ TrackAnswered(last)
       => /\ last.resp.path = LocatedWaypoints(PathOf(last.reply.body))
          /\ last.resp.track = last.reply.body.meta
          /\ \A i \in DOMAIN last.resp.path :
               /\ last.resp.path[i].latitude # NULL
               /\ last.resp.path[i].longitude # NULL
  /\ \A b \in TrackBodies :
       LET out == NormalizeTrack(b) IN
       /\ Len(out) = Cardinality({i \in DOMAIN PathOf(b) :
                        PathOf(b)[i][2] # NULL /\ PathOf(b)[i][3] # NULL})
       /\ (\A i \in DOMAIN PathOf(b) :
             PathOf(b)[i][2] # NULL /\ PathOf(b)[i][3] # NULL)
            => Len(out) = Len(PathOf(b))

\* a path of four elements, two of them without a coordinate, is answered as
\* the first and the fourth, in that order
C21_Witness ==
  /\ TrackAnswered(last)
  /\ Len(last.reply.body.path) = 4
  /\ Len(last.resp.path) = 2
  /\ last.resp.path[1].time = 100
  /\ last.resp.path[2].latitude = 53
  /\ last.resp.path[2].time = NULL

\* a path of two located elements is answered as two waypoints
C21_TwoLocatedWaypoints ==
  /\ TrackAnswered(last)
  /\ Len(last.reply.body.path) = 2
  /\ Len(last.resp.path) = 2
  /\ last.resp.path[1].time = 200
  /\ last.resp.path[2].time = 210

\* the tokens getAccessToken can yield in a behaviour
TokenValues == 1..(2 * MaxRequests)

\* C22: the headers of an upstream request always carry Accept:
\* application/json and the fixed User-Agent, and carry the bearer
\* Authorization exactly when getAccessToken yielded a token for that call:
\* the token just exchanged, or the cached token still valid.
C22_HeadersFollowToken ==
  /\ \A tok \in TokenValues \cup {NULL} :
       /\ getAuthHeaders(tok).Accept = "application/json"
       /\ getAuthHeaders(tok).UserAgent = "Avara-Flight-Tracker/2.0"
       /\ getAuthHeaders(tok).Authorization # NULL <=> tok # NULL
       /\ tok # NULL => getAuthHeaders(tok).Authorization = tok
  /\ grantReply # NoGrantReply
       => /\ req[grantReply.slot].authorization # NULL
               <=> grantReply.kind = "ok"
          /\ grantReply.kind = "ok"
               => req[grantReply.slot].authorization = cachedToken
  /\ (arrived # NoArrival /\ req[arrived.slot].pc = "fetch1")
       => IF cachedToken # NULL /\ now < tokenExpiry - 5 * 60 * 1000
          THEN req[arrived.slot].authorization = cachedToken
          ELSE req[arrived.slot].authorization = NULL

\* a states call goes out with the token that was cached by another request
C22_Witness ==
  /\ arrived # NoArrival
  /\ req[arrived.slot].pc = "fetch1"
  /\ req[arrived.slot].id = 2
  /\ req[arrived.slot].authorization = cachedToken
  /\ cachedToken = 1

CronSecretConfigured == env.cronSecret \notin {Absent, ""}

\* C23: with CRON_SECRET configured, a trigger whose Authorization header is
\* not exactly "Bearer <CRON_SECRET>" is answered 401 at once: no token
\* exchange, no upstream call, snapshot cache and token cache unchanged; a
\* trigger with exactly that header is accepted.  Without CRON_SECRET every
\* trigger is accepted, whatever its Authorization header.
C23_CronSecretCheck ==
  [][ (arrived'.kind = "cron")
        => IF /\ CronSecretConfigured
              /\ arrived'.authHeader # "Bearer " \o env.cronSecret
           THEN /\ last'.pc = "done"
                /\ last'.kind = "cron"
                /\ last'.resp.status = 401
                /\ last'.calls = 0
                /\ last'.exchanges = 0
                /\ req' = req
                /\ UNCHANGED <<cachedFlightData, lastUpdateTime, cachedToken,
                               tokenExpiry>>
           ELSE /\ last' = IdleReq
                /\ InFlight(req'[arrived'.slot])
                /\ req'[arrived'.slot].kind = "cron" ]_vars

\* a trigger without Authorization header is rejected while a snapshot is
\* cached
C23_Witness ==
  /\ arrived.kind = "cron"
  /\ arrived.authHeader = Absent
  /\ CronSecretConfigured
  /\ last.resp.status = 401
  /\ cachedFlightData # NoSnapshot

\* a trigger with a wrong header is accepted when no secret is configured
C23_AcceptedWithoutSecret ==
  /\ arrived.kind = "cron"
  /\ arrived.authHeader = "Bearer wrong"
  /\ ~CronSecretConfigured
  /\ InFlight(req[arrived.slot])

\* C24: when the timeout of an upstream states call fires (on the first call
\* or on the retry after a 401), the request fails with the dedicated
\* timed-out error.
C24_TimeoutIsTimedOutError ==
  last.reply.kind = "abort"
    => /\ last.resp.status = 500
       /\ last.resp.details = "timed out"

\* C25: after rate-limit errors the hook backs off: the poll issued after n
\* consecutive rate-limit errors comes later than the fixed polling interval
\* after the one before it, and later still for every further error.
C25_BackoffAfterRateLimit ==
  (hook.pending /\ hook.polled /\ hook.rateErrs >= 1)
    => /\ hook.gap > FETCH_INTERVAL
       /\ hook.rateErrs >= 2 => hook.gap > 2 * FETCH_INTERVAL

\* the handler in slot p invalidates the token cache in this step
Invalidates(p) ==
  /\ req'[p].id = req[p].id
  /\ req'[p].clears = req[p].clears + 1

\* C26: the token cache goes from no usable token to a usable one only by a
\* successful exchange, and from a usable token to none only when time
\* passes, by clearTokenCache or by a successful exchange that replaces it: a
\* token cached by one caller is never removed by another caller's failed
\* exchange.
C26_TokenCacheTransitions ==
  [][ /\ (~TokenUsable(TokenCache) /\ TokenUsable(TokenCache)')
           => grantReply'.kind = "ok"
      /\ (TokenUsable(TokenCache) /\ ~TokenUsable(TokenCache)')
           => \/ clock' # clock
              \/ \E p \in Procs : Invalidates(p)
              \/ grantReply'.kind = "ok" ]_vars

\* C27: the provenance tag of a successful fetch, in the response and in the
\* snapshot it caches, is the authenticated one exactly when the states call
\* that produced the data carried an Authorization header.
C27_TagFollowsAuthorization ==
  (Succeeded(last) /\ last.kind \in {"flights", "cron"})
    => /\ last.resp.source = "opensky-authenticated"
            <=> last.authorization # NULL
       /\ CachesResult(last)
            => (cachedFlightData.source = "opensky-authenticated"
                  <=> last.authorization # NULL)

\* the handler in slot p calls getAccessToken in this step: it starts and
\* goes on to its states call, or it retries after a 401
AsksForToken(p) ==
  \/ req[p].pc = "idle" /\ InFlight(req'[p])
  \/ Invalidates(p)

\* C28: grant exchanges are not serialized: a handler that finds no usable
\* token (after its own invalidation, if any) and has credentials starts its
\* own exchange whether or not another one is in flight, and a successful
\* exchange caches its own token whatever the cache held.
C28_ExchangesNotSerialized ==
  [][ \A p \in Procs :
        /\ ( /\ AsksForToken(p)
             /\ HasCredentials
             /\ Invalidates(p) \/ ~TokenUsable(TokenCache) )
             => /\ req'[p].pc \in {"exch1", "exch2"}
                /\ req'[p].exchanges = req[p].exchanges + 1
        /\ (grantReply'.slot = p /\ grantReply'.kind = "ok")
             => cachedToken' = MintedToken(req[p].id, req[p].pc = "exch2")
    ]_vars

\* two exchanges are in flight at once
C28_Witness == \A p \in Procs : req[p].pc \in {"exch1", "exch2"}

\* the cache holds the token of the exchange that completed last, while the
\* handler whose exchange completed first still uses its own token
C28_LastExchangeWins ==
  /\ grantReply.kind = "ok"
  /\ cachedToken = req[grantReply.slot].authorization
  /\ \E o \in Procs : /\ req[o].pc = "fetch1"
                      /\ req[o].authorization # NULL
                      /\ req[o].authorization # cachedToken

\* C29: the invalidation after a 401 only discards the token that was sent on
\* the rejected request, never a newer token cached by another request.
C29_InvalidatesOnlyRejectedToken ==
  [][ \A p \in Procs :
        Invalidates(p)
          => cachedToken = NULL \/ cachedToken = req[p].authorization ]_vars

\* what an execution has done so far stays within the retry budget
WithinBudget(r) ==
  /\ r.calls <= 2
  /\ r.exchanges <= 2
  /\ r.clears <= 1
  /\ r.calls = 2 => r.clears = 1
  /\ r.clears = 1 => r.rejected # NULL

\* C30: one handler execution (flights, tracks or cron) makes at most two
\* upstream data calls, at most two exchanges and at most one invalidation,
\* and a 401 on a call sent without Authorization header is neither retried
\* nor followed by an invalidation.
C30_RetryBudget ==
  /\ \A p \in Procs : WithinBudget(req[p])
  /\ WithinBudget(last)
  /\ (last.pc = "done" /\ last.reply.status = 401
        /\ ~AuthenticatedRequest(last))
       => last.calls = 1 /\ last.clears = 0

\* a tracks request sent without Authorization header is answered 401 and
\* ends after its one call
C30_Witness ==
  /\ last.pc = "done"
  /\ last.kind = "tracks"
  /\ last.reply.status = 401
  /\ last.authorization = NULL
  /\ last.calls = 1
  /\ last.clears = 0
  /\ HasCredentials

\* an execution that used its whole budget: two calls, two exchanges, one
\* invalidation
C30_FullBudget ==
  /\ last.pc = "done"
  /\ last.calls = 2
  /\ last.exchanges = 2
  /\ last.clears = 1

\* the answer to the states call that the handler in slot p consumes in
\* this step
Delivered(p) == IF Returns(p) THEN last'.reply ELSE req'[p].reply

\* the handler in slot p consumes a non-2xx answer that is final: not the 401
\* of a first call that carried a token
FinalNon2xx(p) ==
  /\ req[p].pc \in {"fetch1", "fetch2"}
  /\ Moves(p)
  /\ Delivered(p).kind = "status"
  /\ ~ResponseOk(Delivered(p).status)
  /\ ~ ( /\ req[p].pc = "fetch1"
         /\ Delivered(p).status = 401
         /\ req[p].authorization # NULL )

\* C31: when the final upstream answer of an /api/flights request is non-2xx,
\* the request ends with the error response, makes no further upstream call
\* and leaves the snapshot cache as it was.
C31_Non2xxEndsWithError ==
  [][ \A p \in Procs :
        (req[p].kind = "flights" /\ FinalNon2xx(p))
          => /\ Returns(p)
             /\ last'.resp.status = 500
             /\ last'.resp.kind = "error"
             /\ last'.resp.details =
                  FlightsErrorMessage(last'.reply.status, req[p].hasAuth)
             /\ last'.calls = req[p].calls
             /\ last'.exchanges = req[p].exchanges
             /\ cachedFlightData' = cachedFlightData
             /\ lastUpdateTime' = lastUpdateTime ]_vars

\* a second 401 ended an /api/flights request while a snapshot was cached
C31_Witness ==
  /\ last.pc = "done"
  /\ last.kind = "flights"
  /\ last.calls = 2
  /\ last.reply.status = 401
  /\ last.resp.status = 500
  /\ cachedFlightData # NoSnapshot

\* a 429 and a 503 ended an /api/flights request
C31_RateLimitedOrUnavailable ==
  /\ last.pc = "done"
  /\ last.kind = "flights"
  /\ last.reply.status \in {429, 503}

\* the values a bound can have in a query string: missing, empty, a number
BoundValues == {Absent, "", "10"}

\* some of the four bounds are supplied, but not all of them
SuppliesSome(q) ==
  LET given == {k \in {"lamin", "lomin", "lamax", "lomax"} : TruthyStr(q[k])}
  IN given # {} /\ Cardinality(given) < 4

\* no query string with one, two or three bounds counts as a bounding box
NoPartialBoundingBox ==
  \A a, b, c, d \in BoundValues :
    SuppliesSome(Params(a, b, c, d)) => ~hasBoundingBox(Params(a, b, c, d))

\* C32: a request that supplies one, two or three of the four bounds is
\* handled like a request without bounding box: it is answered from a fresh
\* cache when not forced, otherwise its upstream URL carries no bounds, and a
\* successful fetch with such a URL is written to the snapshot cache.
C32_PartialBoundsAreNoBounds ==
  [][ /\ NoPartialBoundingBox
      /\ (arrived'.kind = "flights" /\ SuppliesSome(arrived'.params))
           => LET p == arrived'.slot IN
              IF getCachedFlights.present /\ hasFreshCache
                   /\ ~forceRefresh(arrived'.force)
              THEN /\ last'.pc = "done"
                   /\ last'.resp.cached = "true"
                   /\ last'.resp.flights = cachedFlightData.flights
                   /\ last'.calls = 0
              ELSE /\ InFlight(req'[p])
                   /\ req'[p].apiUrl = NoParams
                   /\ ~req'[p].hasBoundingBox
      /\ \A p \in Procs :
           ( /\ req[p].kind = "flights"
             /\ req[p].apiUrl = NoParams
             /\ Returns(p)
             /\ Succeeded(last') )
             => /\ cachedFlightData' =
                     SnapshotOf(FetchedData(req[p], last'.reply.body), now)
                /\ lastUpdateTime' = now ]_vars

\* a request with two of the four bounds is answered from the cache
C32_Witness ==
  /\ arrived.kind = "flights"
  /\ arrived.params = PartialBounds
  /\ last.pc = "done"
  /\ last.resp.cached = "true"

\* a request with two of the four bounds goes upstream without bounds
C32_PartialGoesUpstream ==
  /\ arrived.kind = "flights"
  /\ arrived.params = PartialBounds
  /\ req[arrived.slot].pc = "fetch1"
  /\ req[arrived.slot].apiUrl = NoParams

\* no snapshot was ever cached, or the cached one has expired
ColdOrExpired ==
  cachedFlightData = NoSnapshot \/ now - lastUpdateTime >= MAX_CACHE_AGE_MS

\* the step is the arrival of a poll without bounding box and force flag
PlainPollArrives ==
  /\ arrived'.kind = "flights"
  /\ arrived'.params = NoParams
  /\ arrived'.force = Absent

\* C33: with no snapshot cached or an expired one, a poll without bounding box
\* fetches upstream before it answers; when that fetch succeeds the poll is
\* answered with cached=false and the result is stored, and a poll that
\* follows at once is answered from the cache with the same flights.
C33_FallbackFetchThenCached ==
  [][ /\ (PlainPollArrives /\ ColdOrExpired)
           => /\ InFlight(req'[arrived'.slot])
              /\ last' = IdleReq
              /\ cachedFlightData' = cachedFlightData
      /\ \A p \in Procs :
           ( /\ req[p].kind = "flights"
             /\ ~req[p].hasBoundingBox
             /\ Returns(p)
             /\ last'.resp.status = 200 )
             => /\ last'.resp.cached = "false"
                /\ last'.calls >= 1
                /\ cachedFlightData'.flights = last'.resp.flights
                /\ cachedFlightData'.time = last'.resp.time
                /\ lastUpdateTime' = now
      /\ ( /\ PlainPollArrives
           /\ Succeeded(last)
           /\ last.kind = "flights"
           /\ ~last.hasBoundingBox )
           => /\ last'.pc = "done"
              /\ last'.resp.cached = "true"
              /\ last'.resp.flights = last.resp.flights
              /\ last'.resp.cacheAge = 0
              /\ last'.calls = 0 ]_vars

\* a cold-start poll succeeded and stored its result where no snapshot was
C33_Witness ==
  /\ Succeeded(last)
  /\ last.kind = "flights"
  /\ ~last.hasBoundingBox
  /\ ~last.forceRefresh
  /\ last.replaced = NoSnapshot
  /\ cachedFlightData.flights = last.resp.flights
  /\ Len(last.resp.flights) > 0

\* a poll succeeded over an expired snapshot
C33_OverExpired ==
  /\ Succeeded(last)
  /\ last.kind = "flights"
  /\ ~last.hasBoundingBox
  /\ ~last.forceRefresh
  /\ last.replaced # NoSnapshot
  /\ now - last.replaced.cachedAt >= MAX_CACHE_AGE_MS

\* the poll that follows a fallback fetch at once is answered from the cache
C33_FollowingPollCached ==
  /\ arrived.kind = "flights"
  /\ arrived.params = NoParams
  /\ last.resp.cached = "true"
  /\ last.resp.cacheAge = 0
  /\ last.id = 2
  /\ cachedFlightData.source # "none"
  /\ Len(last.resp.flights) > 0

\* C34: in every reachable state, under any interleaving of exchanges and
\* invalidations, the token cache holds a token exactly when it holds an
\* expiry.
C34_TokenAndExpiryTogether ==
  (cachedToken # NULL) <=> (tokenExpiry # NULL)

\* a token and its expiry are cached after one handler's invalidation and
\* re-exchange, while another handler's exchange is still in flight
C34_Witness ==
  /\ cachedToken # NULL
  /\ tokenExpiry # NULL
  /\ \E p \in Procs : req[p].clears = 1
  /\ \E p \in Procs : req[p].pc \in {"exch1", "exch2"}

\* both are empty after an invalidation, while an exchange is in flight
C34_ClearedTogether ==
  /\ cachedToken = NULL
  /\ tokenExpiry = NULL
  /\ \E p \in Procs : req[p].clears = 1 /\ req[p].pc = "exch2"
  /\ \E p \in Procs : req[p].pc = "fetch1" /\ req[p].authorization # NULL

\* C35: if every outbound call is answered or aborted by its timeout, every
\* /api/flights request and every scheduled refresh that goes upstream
\* returns a response: no execution stays in flight forever.
C35_EveryRequestReturns ==
  /\ []<>(\A p \in Procs : ~InFlight(req[p]))
  /\ [][ \A p \in Procs :
            (InFlight(req[p]) /\ req'[p].pc = "idle")
              => /\ Returns(p)
                 /\ last'.resp.status \in {200, 500}
                 /\ last'.resp.kind
                      \in {"flights", "error", "cron-ok", "cron-fail"} ]_vars

\* a handler that went upstream has returned an error after two calls, and
\* nothing is in flight
C35_Witness ==
  /\ last.pc = "done"
  /\ last.calls = 2
  /\ last.resp.status = 500
  /\ \A p \in Procs : ~InFlight(req[p])

\* the step is the end of a fetch / the unmount of the hook
Settles == hook'.inFlight = hook.inFlight - 1
Unmounts == hook.phase = "mounted" /\ hook'.phase = "unmounted"

\* C36: at most one /api/flights fetch of the hook is in flight at any time,
\* and a fetchFlights call made while a fetch is in progress (interval tick,
\* manual refresh or retry) issues no request and aborts nothing.
C36_OneFetchInFlight ==
  /\ [](hook.inFlight <= 1 /\ (hook.isFetching <=> hook.inFlight = 1))
  /\ [][ (hook.isFetching /\ ~Settles /\ ~Unmounts)
           => /\ hook'.issued = hook.issued
              /\ hook'.inFlight = hook.inFlight
              /\ hook'.controller = hook.controller
              /\ hook'.isFetching ]_vars

\* the interval fired while a fetch was in flight and the call was skipped
C36_Witness ==
  /\ hook.skipped
  /\ hook.fired >= 1
  /\ hook.inFlight = 1
  /\ hook.controller = "live"
  /\ hook.issued = 1

\* C37: the in-progress flag is cleared when the fetch that set it ends, on
\* every exit path, so the flag is set only while a fetch is in flight and
\* the next interval tick after a finished fetch issues a request.
C37_FlagClearedOnEveryExit ==
  /\ [](hook.isFetching => hook.pending)
  /\ [][ /\ Settles => ~hook'.isFetching
         /\ (~hook.pending /\ hook'.fired = hook.fired + 1)
              => /\ hook'.issued = hook.issued + 1
                 /\ hook'.pending
                 /\ ~hook'.skipped ]_vars

\* a fetch ended successfully after the unmount and left the flag cleared
C37_Witness ==
  /\ hook.outcome = "ok"
  /\ ~hook.mounted
  /\ ~hook.pending
  /\ ~hook.isFetching
  /\ hook.flights = "none"

\* the fetch was aborted by the unmount and left the flag cleared
C37_AfterAbort ==
  /\ hook.outcome = "abort"
  /\ ~hook.pending
  /\ ~hook.isFetching

\* an interval tick after a failed fetch issued the next request
C37_PollAfterError ==
  /\ hook.outcome \in {"http-ratelimit", "http-other", "neterr", "badbody"}
  /\ hook.pending
  /\ hook.polled
  /\ hook.error = ""

\* the step is a get call (one that returns what the call before it returned
\* in the same state of the object changes nothing)
GetReturns == requestCache'.returned # requestCache.returned

\* the fetchers for key that have been started and have not settled
Running(key) == {f \in requestCache.running : f[1] = key}

\* while a fetcher for the key is pending, get starts no other one and
\* returns the promise of the pending one
DeduplicatesByKey ==
  LET r == requestCache'.returned IN
  (GetReturns /\ Running(r.key) # {})
    => /\ requestCache'.invoked = requestCache.invoked
       /\ r.kind = "pending"
       /\ Running(r.key) = {<<r.key, r.promise>>}

\* a value is served from the cache only while its age is below the ttl
ServesOnlyFresh ==
  LET r == requestCache'.returned IN
  (GetReturns /\ r.kind = "cached")
    => /\ requestCache.cache[r.key] # NoEntry
       /\ r.data = requestCache.cache[r.key].data
       /\ now - requestCache.cache[r.key].timestamp < r.ttl

\* a rejected fetcher caches nothing and removes the pending entry, and the
\* get that finds no fresh value and no pending entry starts a fetcher
RejectionCachesNothing ==
  /\ \A f \in requestCache.running :
       ( /\ requestCache'.running = requestCache.running \ {f}
         /\ requestCache'.cache[f[1]] = requestCache.cache[f[1]] )
         => /\ requestCache'.cache = requestCache.cache
            /\ requestCache'.pending[f[1]] = 0
  /\ LET r == requestCache'.returned IN
     (GetReturns /\ requestCache.pending[r.key] = 0 /\ r.kind # "cached")
       => /\ r.kind = "started"
          /\ requestCache'.invoked = requestCache.invoked + 1

\* C38: get deduplicates by key: while a fetcher for a key is pending, every
\* further get for that key returns the pending promise and starts no
\* fetcher; a value is served from the cache only while its age is below the
\* ttl; a rejected fetcher caches nothing and removes the pending entry, so
\* that the next get starts a fetcher again.
C38_GetDeduplicates ==
  [][DeduplicatesByKey /\ ServesOnlyFresh /\ RejectionCachesNothing]_vars

=============================================================================
